---- MODULE Spec2Model ----
(***************************************************************************)
(* Contact application: the record store (ContactRepo, contact_repo.rs),   *)
(* record validation (Contact, contact_model.rs), the request handlers     *)
(* that drive them (main.rs) and the background archive job (Archiver,     *)
(* contacts_archiver.rs).                                                  *)
(***************************************************************************)
EXTENDS Integers, Sequences, FiniteSets, TLC

\* ------------------------------------------------------------------ bounds
NumCallers == 2        \* POST /contacts/new requests that arrive
NumRacers == 3         \* the same, when nothing but creates arrive
MaxSeed == 2           \* n of build_with_fake_data(n)
MaxRuns == 2           \* Archiver::run calls explored
MaxResets == 2         \* Archiver::reset calls explored
MaxRows == 12          \* n of build_with_fake_data(n) when pages are read

\* ------------------------------------------------------- program constants
ERR_EMAIL_UNIQUE == "Email Must Be Unique"
ERR_EMAIL_REQUIRED == "Email Required"
ERR_EMAIL_NOT_VALID == "Email Not Valid"

\* Option<T>
None == <<>>
Some(x) == <<x>>

\* ---------------------------------------------------------- input domains
\* Form values a request may carry.  "" is the empty email, "nobody" has no
\* '@' and is rejected by validator::validate_email.
ValidEmails == {"a@x.com", "b@x.com"}
Emails == ValidEmails \cup {"", "nobody"}
\* first and last are searched character by character: a name is the
\* sequence of its characters (all of them ASCII here)
Al == <<"A", "l">>
Bo == <<"B", "o">>
Li == <<"L", "i">>
FirstNames == {Al, Bo}
LastNames == {Li}
Phones == {"555"}

\* the distinct addresses given to the rows seeded for the page reads
FakeEmail(i) == "u" \o ToString(i) \o "@x.com"
SeedEmails == {FakeEmail(i) : i \in 1..MaxRows}

Callers == 1..NumCallers
Racers == 1..NumRacers
Ids == 0..(MaxSeed + NumCallers - 1)

\* ContactsQuery of GET /contacts: q (absent, blank, padded, a letter in
\* either case, a string no name holds, the LIKE wildcards) and page (absent,
\* 0, the first pages, the last page whose offset fits in a u32 and the first
\* whose offset does not)
Queries == {<<>>, <<" ">>, <<"a">>, <<" ", "O", " ">>, <<"L", "I">>, <<"z">>,
            <<"%">>, <<"_">>}
OptQueries == {None} \cup {Some(q) : q \in Queries}
Pages == {0, 1, 2, 3, 429496730, 429496731}
OptPages == {None} \cup {Some(page) : page \in Pages}

\* NewContactForm as posted to /contacts/new and to /contacts/:id/edit
NewForms == [first_name : {Al}, last_name : LastNames,
             phone : Phones, email : Emails]
EditForms == [first_name : FirstNames, last_name : LastNames,
              phone : Phones, email : Emails]

VARIABLES
  contact,              \* rows of table contact (id PRIMARY KEY, email UNIQUE)
  next_id,              \* ContactRepo.next_id : AtomicU32
  pc,                   \* per request: "idle" (not arrived), "save", "done"
  req,                  \* per request: the Contact its handler built
  result,               \* per request: what contacts.save returned
  issued,               \* history: ids returned by pop_id, in order of return
  deleted_ids,          \* history: ids of rows removed by delete
  rendered,             \* what the last GET /contacts answered, if any
  status,               \* Archiver.status : AtomicStatus
  progress_percentage,  \* Archiver.progress_percentage : AtomicU8
  json_data,            \* Archiver.json_data : ArcSwapOption<String>
  run_calls,            \* Archiver::run calls between their swap and their return
  tasks,                \* the spawned background tasks, in spawn order
  n_run,                \* history: number of run() calls begun
  n_reset,              \* history: number of reset() calls
  n_json                \* history: number of json_data stores

storeVars == <<contact, next_id, pc, req, result, issued, deleted_ids,
               rendered>>
archVars == <<status, progress_percentage, json_data, run_calls, tasks,
              n_run, n_reset, n_json>>
vars == <<contact, next_id, pc, req, result, issued, deleted_ids, rendered,
          status, progress_percentage, json_data, run_calls, tasks,
          n_run, n_reset, n_json>>

\* =================================================================== Contact
\* Contact::builder / NewContactForm::build_contact
build_contact(form, id) ==
  [id |-> id, first |-> form.first_name, last |-> form.last_name,
   phone |-> form.phone, email |-> form.email]

\* validator::validate_email: the address grammar, decided per input value
validator_validate_email(email) == email \in ValidEmails \cup SeedEmails

NoErrors == [first |-> None, last |-> None, phone |-> None, email |-> None]

\* Contact::validate: Ok(()) is NoErrors, Err(e) is e
validate(c) ==
  LET err_email == IF c.email = "" THEN Some(ERR_EMAIL_REQUIRED)
                   ELSE IF ~validator_validate_email(c.email)
                        THEN Some(ERR_EMAIL_NOT_VALID)
                        ELSE None
      err_phone == None
  IN [first |-> None, last |-> None, phone |-> err_phone, email |-> err_email]

\* Contact::validate_email(&email) -> Option<String>
Contact_validate_email(email) ==
  IF email = "" THEN Some(ERR_EMAIL_REQUIRED)
  ELSE IF ~validator_validate_email(email) THEN Some(ERR_EMAIL_NOT_VALID)
       ELSE None

\* Contact::new_fake: the values fakeit may generate
FakeContacts == [first : {Al}, last : LastNames, phone : Phones,
                 email : ValidEmails]

new_fake(id, f) ==
  [id |-> id, first |-> f.first, last |-> f.last, phone |-> f.phone,
   email |-> f.email]

\* =============================================================== ContactRepo
\* INSERT INTO contact: a row is refused (unique violation) when its id or
\* its email is already present; execute_save maps the refusal to Ok(false).
execute_save_drop_unique(table, c) ==
  [table |-> table \cup {c}, ok |-> TRUE]

execute_save(table, c) ==
  IF \E r \in table : r.id = c.id \/ r.email = c.email
  THEN [table |-> table, ok |-> FALSE]
  ELSE [table |-> table \cup {c}, ok |-> TRUE]

\* UPDATE contact SET ... WHERE id = ?: "Ok" also when no row has the id; the
\* statement fails as a whole (Err) when another row owns the email.
execute_update_no_unique(table, c) ==
  IF ~\E r \in table : r.id = c.id
  THEN [table |-> table, res |-> "Ok"]
  ELSE [table |-> {r \in table : r.id # c.id} \cup {c}, res |-> "Ok"]

execute_update_self_conflict(table, c) ==
  IF ~\E r \in table : r.id = c.id
  THEN [table |-> table, res |-> "Ok"]
  ELSE IF \E r \in table : r.email = c.email
       THEN [table |-> table, res |-> "Err"]
       ELSE [table |-> {r \in table : r.id # c.id} \cup {c}, res |-> "Ok"]

execute_update(table, c) ==
  IF ~\E r \in table : r.id = c.id
  THEN [table |-> table, res |-> "Ok"]
  ELSE IF \E r \in table : r.id # c.id /\ r.email = c.email
       THEN [table |-> table, res |-> "Err"]
       ELSE [table |-> {r \in table : r.id # c.id} \cup {c}, res |-> "Ok"]

\* DELETE FROM contact WHERE id = ?
execute_delete_up_to(table, contact_id) == {r \in table : r.id > contact_id}

execute_delete(table, contact_id) == {r \in table : r.id # contact_id}

\* SELECT * FROM contact WHERE email = ? (fetch_optional)
find_by_email(table, email) ==
  IF \E r \in table : r.email = email
  THEN Some(CHOOSE r \in table : r.email = email)
  ELSE None

\* ContactRepo::build_with_fake_data: rows 0..n-1 are inserted in one
\* transaction, the bool returned by execute_save is dropped.
RECURSIVE build_with_fake_data(_)
build_with_fake_data(fakes) ==
  IF fakes = <<>> THEN {}
  ELSE LET n == Len(fakes)
           before == build_with_fake_data(SubSeq(fakes, 1, n - 1))
       IN execute_save(before, new_fake(n - 1, fakes[n])).table

\* ContactRepo::count: SELECT count(*) FROM contact
count(table) == Cardinality(table)

\* ContactRepo::pop_id: fetch_add(1) on next_id, one atomic step.  The u32
\* counter wraps after 2^32 calls; the calls explored here stay far
\* below that, so the increment is written without the modulus.
pop_id_from_count ==
  [id |-> Cardinality(contact), next_id |-> Cardinality(contact) + 1]

pop_id_load == [id |-> next_id, next_id |-> next_id]

pop_id == [id |-> next_id, next_id |-> next_id + 1]

\* ContactRepo::save
save_unique_as_failure(table, c) ==
  IF validate(c) # NoErrors
  THEN [table |-> table, res |-> "Invalid", errors |-> validate(c)]
  ELSE LET s == execute_save(table, c)
       IN IF ~s.ok
          THEN [table |-> table, res |-> "Err", errors |-> NoErrors]
          ELSE [table |-> s.table, res |-> "Ok", errors |-> NoErrors]

save(table, c) ==
  IF validate(c) # NoErrors
  THEN [table |-> table, res |-> "Invalid", errors |-> validate(c)]
  ELSE LET s == execute_save(table, c)
       IN IF ~s.ok
          THEN [table |-> table, res |-> "Invalid",
                errors |-> [NoErrors EXCEPT !.email = Some(ERR_EMAIL_UNIQUE)]]
          ELSE [table |-> s.table, res |-> "Ok", errors |-> NoErrors]

\* ContactRepo::update
update(table, c) ==
  IF validate(c) # NoErrors
  THEN [table |-> table, res |-> "Invalid", errors |-> validate(c)]
  ELSE LET u == execute_update(table, c)
       IN [table |-> u.table, res |-> u.res, errors |-> NoErrors]

\* ContactRepo::validate_email
validate_email_ignore_id(table, contact_id, email) ==
  IF Contact_validate_email(email) # None THEN Contact_validate_email(email)
  ELSE IF find_by_email(table, email) = None THEN None
       ELSE Some(ERR_EMAIL_UNIQUE)

validate_email(table, contact_id, email) ==
  IF Contact_validate_email(email) # None THEN Contact_validate_email(email)
  ELSE LET found == find_by_email(table, email)
       IN IF found = None THEN None
          ELSE IF contact_id # None /\ contact_id[1] = found[1].id THEN None
               ELSE Some(ERR_EMAIL_UNIQUE)

\* ContactRepo::all: SELECT * FROM contact, rows in rowid (= id) order
all_fetch_one(table) ==
  IF table = {} THEN <<>>
  ELSE <<CHOOSE r \in table : \A q \in table : r.id <= q.id>>

RECURSIVE all(_)
all(table) ==
  IF table = {} THEN <<>>
  ELSE LET first_row == CHOOSE r \in table : \A q \in table : r.id <= q.id
       IN <<first_row>> \o all(table \ {first_row})

\* ------------------------------------------------------------ page reads
PAGE_SIZE == 10

\* u32 values are kept as two 16-bit limbs, so that the products of the
\* offset computation are formed without leaving the integers at hand
LIMB == 65536

\* a * b in u32 for a multiplier b < LIMB: the wrapped product and whether
\* the true product left the u32 range
mul_u32(a, b) ==
  LET lo == (a % LIMB) * b
      hi == (a \div LIMB) * b + (lo \div LIMB)
  IN [hi |-> hi % LIMB, lo |-> lo % LIMB, overflow |-> hi >= LIMB]

\* LIMIT ? OFFSET ? over the rows of the SELECT, the offset given in limbs
limit_offset(rows, limit, offset) ==
  IF offset.hi > 0 \/ offset.lo >= Len(rows) THEN <<>>
  ELSE SubSeq(rows, offset.lo + 1,
              IF offset.lo + limit < Len(rows) THEN offset.lo + limit
              ELSE Len(rows))

\* (page - 1) * PAGE_SIZE bound to OFFSET: with overflow checks the
\* multiplication panics when it leaves u32, without them it wraps
page_of(rows, page, overflow_checks) ==
  LET offset == mul_u32(page - 1, PAGE_SIZE)
  IN IF offset.overflow /\ overflow_checks
     THEN [res |-> "Panic", contacts |-> <<>>]
     ELSE [res |-> "Ok", contacts |-> limit_offset(rows, PAGE_SIZE, offset)]

\* u32::max
max(a, b) == IF a >= b THEN a ELSE b

\* ContactRepo::all_by_page
all_by_page_no_max(table, page, overflow_checks) ==
  IF page = 0
  THEN IF overflow_checks THEN [res |-> "Panic", contacts |-> <<>>]
       ELSE [res |-> "Ok", contacts |-> <<>>]
  ELSE page_of(all(table), page, overflow_checks)

all_by_page(table, page, overflow_checks) ==
  page_of(all(table), max(page, 1), overflow_checks)

\* the case folding of SQLite's LIKE: the 26 ASCII letters
ascii_lower(ch) ==
  CASE ch = "A" -> "a" [] ch = "B" -> "b" [] ch = "I" -> "i"
    [] ch = "L" -> "l" [] ch = "O" -> "o" [] OTHER -> ch

\* text LIKE pattern: % is any run of characters, _ any one character, a
\* letter matches itself in either case
RECURSIVE like(_, _)
like(text, pattern) ==
  IF pattern = <<>> THEN text = <<>>
  ELSE IF Head(pattern) = "%"
       THEN \/ like(text, Tail(pattern))
            \/ text # <<>> /\ like(Tail(text), pattern)
       ELSE IF text = <<>> THEN FALSE
            ELSE IF Head(pattern) = "_"
                 THEN like(Tail(text), Tail(pattern))
                 ELSE /\ ascii_lower(Head(text)) = ascii_lower(Head(pattern))
                      /\ like(Tail(text), Tail(pattern))

\* WHERE first LIKE ("%" || ? || "%") OR last LIKE ("%" || ? || "%")
search_where(r, q) ==
  \/ like(r.first, <<"%">> \o q \o <<"%">>)
  \/ like(r.last, <<"%">> \o q \o <<"%">>)

\* ContactRepo::search
search(table, q, page, overflow_checks) ==
  page_of(SelectSeq(all(table), LAMBDA r : search_where(r, q)),
          max(page, 1), overflow_checks)

\* str::to_lowercase, on the ASCII strings at hand
to_lowercase(str) == [k \in DOMAIN str |-> ascii_lower(str[k])]

\* str::contains
contains(item, str) ==
  \E k \in 0..(Len(item) - Len(str)) : SubSeq(item, k + 1, k + Len(str)) = str

\* Contact::match_text
match_text(c, str) ==
  \/ contains(to_lowercase(c.first), to_lowercase(str))
  \/ contains(to_lowercase(c.last), to_lowercase(str))

\* str::trim
RECURSIVE trim_start(_)
trim_start(str) ==
  IF str # <<>> /\ Head(str) = " " THEN trim_start(Tail(str)) ELSE str

RECURSIVE trim_end(_)
trim_end(str) ==
  IF str # <<>> /\ str[Len(str)] = " "
  THEN trim_end(SubSeq(str, 1, Len(str) - 1)) ELSE str

trim(str) == trim_end(trim_start(str))

\* ========================================================= request handlers
NoResult == [op |-> "none"]
NoContact == [id |-> 0, first |-> <<>>, last |-> <<>>, phone |-> "", email |-> ""]

\* contacts_new_post, first step: build_contact(pop_id())
contacts_new_post_pop_id(c, form) ==
  /\ pc[c] = "idle"
  /\ next_id' = pop_id.next_id
  /\ issued' = Append(issued, pop_id.id)
  /\ req' = [req EXCEPT ![c] = build_contact(form, pop_id.id)]
  /\ pc' = [pc EXCEPT ![c] = "save"]
  /\ UNCHANGED <<contact, result, deleted_ids>>
  /\ UNCHANGED rendered
  /\ UNCHANGED archVars

\* contacts_new_post, second step: contacts.save(&contact) and the response
contacts_new_post_save(c) ==
  /\ pc[c] = "save"
  /\ LET s == save(contact, req[c])
     IN /\ contact' = s.table
        /\ result' = [result EXCEPT ![c] =
                        [op |-> "save", res |-> s.res, errors |-> s.errors]]
  /\ pc' = [pc EXCEPT ![c] = "done"]
  /\ UNCHANGED <<next_id, req, issued, deleted_ids>>
  /\ UNCHANGED rendered
  /\ UNCHANGED archVars

\* contacts_edit_post: contacts.update(&contact) for the id of the path
contacts_edit_post(contact_id, form) ==
  /\ contact' = update(contact, build_contact(form, contact_id)).table
  /\ UNCHANGED <<next_id, pc, req, result, issued, deleted_ids>>
  /\ UNCHANGED rendered
  /\ UNCHANGED archVars

\* contacts_delete_post: contacts.delete(id); the handler answers the same
\* whatever the table held
contacts_delete_post(contact_id) ==
  /\ contact' = execute_delete(contact, contact_id)
  /\ deleted_ids' = IF \E r \in contact : r.id = contact_id
                    THEN deleted_ids \cup {contact_id} ELSE deleted_ids
  /\ UNCHANGED <<next_id, pc, req, result, issued>>
  /\ UNCHANGED rendered
  /\ UNCHANGED archVars

\* contacts_get: search when the trimmed q is not empty, else all_by_page;
\* a panic of the repo call is the handler's.  overflow_checks is the build
\* profile of the binary.
contacts_get(query_q, query_page, overflow_checks) ==
  /\ LET q == IF query_q = None THEN None ELSE Some(trim(query_q[1]))
         page == IF query_page = None THEN 1 ELSE query_page[1]
         contacts_set == IF q # None /\ q[1] # <<>>
                         THEN search(contact, q[1], page, overflow_checks)
                         ELSE all_by_page(contact, page, overflow_checks)
     IN rendered' = Some([res |-> contacts_set.res,
                          contacts |-> contacts_set.contacts,
                          q |-> q, page |-> page])
  /\ UNCHANGED <<contact, next_id, pc, req, result, issued, deleted_ids>>
  /\ UNCHANGED archVars

\* ================================================================== Archiver
STAGES == 10

\* serde_json::to_string(&contacts): one JSON array, one object per contact
\* in the order of the Vec
to_string(contacts) == [json |-> "array", items |-> contacts]

\* Archiver::run after the swap: what the call goes on to do, by old_status
run_spawn_unless_complete(old_status) ==
  IF old_status = "Complete" THEN "restore" ELSE "spawn"

run_respawn_on_complete(old_status) ==
  IF old_status = "Running" THEN "return" ELSE "spawn"

run_after_swap(old_status) ==
  IF old_status # "Waiting"
  THEN IF old_status = "Complete" THEN "restore" ELSE "return"
  ELSE "spawn"

\* the spawned task: its position, the loop variable i, the Vec read by
\* contacts.all(), and history: cancelled, wrote, the table as it was when
\* the task stored progress 100 (at_100) and when it read it (at_read), and
\* the number of reset() calls so far when its read failed (failed_at)
NewTask == [pc |-> "sleep", i |-> 0, contacts |-> <<>>,
            cancelled |-> FALSE, wrote |-> FALSE,
            at_100 |-> {}, at_read |-> {}, failed_at |-> None]

Alive(t) == tasks[t].pc # "done"

\* Archiver::run, lines 51-53: status.swap(Running)
run_swap ==
  /\ n_run < MaxRuns
  /\ n_run' = n_run + 1
  /\ status' = "Running"
  /\ run_calls' =
       CASE run_after_swap(status) = "spawn" ->
              [run_calls EXCEPT !.spawn = @ + 1]
         [] run_after_swap(status) = "restore" ->
              [run_calls EXCEPT !.restore = @ + 1]
         [] OTHER -> run_calls
  /\ tasks' = [t \in DOMAIN tasks |-> [tasks[t] EXCEPT !.cancelled = FALSE]]
  /\ UNCHANGED <<progress_percentage, json_data, n_reset, n_json>>
  /\ UNCHANGED storeVars

\* Archiver::run, lines 55-59: old_status was Complete, store it back
run_restore ==
  /\ run_calls.restore > 0
  /\ status' = "Complete"
  /\ run_calls' = [run_calls EXCEPT !.restore = @ - 1]
  /\ UNCHANGED <<progress_percentage, json_data, tasks, n_run, n_reset, n_json>>
  /\ UNCHANGED storeVars

\* Archiver::run, lines 61-65: old_status was Waiting, progress to 0 and spawn
run_spawn ==
  /\ run_calls.spawn > 0
  /\ progress_percentage' = 0
  /\ tasks' = Append(tasks, NewTask)
  /\ run_calls' = [run_calls EXCEPT !.spawn = @ - 1]
  /\ UNCHANGED <<status, json_data, n_run, n_reset, n_json>>
  /\ UNCHANGED storeVars

\* Archiver::reset.  cancelled (history) marks the tasks in flight when a
\* reset meets status Running, until a later run() call.
reset_clear_artifact ==
  /\ n_reset < MaxResets
  /\ n_reset' = n_reset + 1
  /\ status' = "Waiting"
  /\ json_data' = None
  /\ tasks' = [t \in DOMAIN tasks |->
                 IF status = "Running" /\ Alive(t)
                 THEN [tasks[t] EXCEPT !.cancelled = TRUE] ELSE tasks[t]]
  /\ UNCHANGED <<progress_percentage, run_calls, n_run, n_json>>
  /\ UNCHANGED storeVars

reset ==
  /\ n_reset < MaxResets
  /\ n_reset' = n_reset + 1
  /\ status' = "Waiting"
  /\ tasks' = [t \in DOMAIN tasks |->
                 IF status = "Running" /\ Alive(t)
                 THEN [tasks[t] EXCEPT !.cancelled = TRUE] ELSE tasks[t]]
  /\ UNCHANGED <<progress_percentage, json_data, run_calls, n_run, n_json>>
  /\ UNCHANGED storeVars

\* spawned task, lines 67-70: wake from the stage's sleep and check status
task_check_stop_if_running(t) ==
  /\ tasks[t].pc = "sleep"
  /\ tasks' = [tasks EXCEPT ![t].pc =
                 IF status = "Running" THEN "done" ELSE "store"]
  /\ UNCHANGED <<status, progress_percentage, json_data, run_calls,
                 n_run, n_reset, n_json>>
  /\ UNCHANGED storeVars

task_check(t) ==
  /\ tasks[t].pc = "sleep"
  /\ tasks' = [tasks EXCEPT ![t].pc =
                 IF status # "Running" THEN "done" ELSE "store"]
  /\ UNCHANGED <<status, progress_percentage, json_data, run_calls,
                 n_run, n_reset, n_json>>
  /\ UNCHANGED storeVars

\* spawned task, lines 71-73: progress_percentage.store((i + 1) * 10)
task_store_progress_one_stage(t) ==
  /\ tasks[t].pc = "store"
  /\ progress_percentage' = ((tasks[t].i + 1) * 10) % 256
  /\ tasks' = [tasks EXCEPT ![t].i = @ + 1,
                            ![t].pc = "final_sleep",
                            ![t].at_100 = contact]
  /\ UNCHANGED <<status, json_data, run_calls, n_run, n_reset, n_json>>
  /\ UNCHANGED storeVars

task_store_progress_next_stage(t) ==
  /\ tasks[t].pc = "store"
  /\ progress_percentage' = ((tasks[t].i + 2) * 10) % 256
  /\ tasks' = [tasks EXCEPT ![t].i = @ + 1,
                            ![t].pc = IF tasks[t].i + 1 = STAGES
                                      THEN "final_sleep" ELSE "sleep",
                            ![t].at_100 = IF tasks[t].i + 1 = STAGES
                                          THEN contact ELSE @]
  /\ UNCHANGED <<status, json_data, run_calls, n_run, n_reset, n_json>>
  /\ UNCHANGED storeVars

task_store_progress(t) ==
  /\ tasks[t].pc = "store"
  /\ progress_percentage' = ((tasks[t].i + 1) * 10) % 256
  /\ tasks' = [tasks EXCEPT ![t].i = @ + 1,
                            ![t].pc = IF tasks[t].i + 1 = STAGES
                                      THEN "final_sleep" ELSE "sleep",
                            ![t].at_100 = IF tasks[t].i + 1 = STAGES
                                          THEN contact ELSE @]
  /\ UNCHANGED <<status, json_data, run_calls, n_run, n_reset, n_json>>
  /\ UNCHANGED storeVars

\* spawned task, lines 75-78: the last sleep and status check
task_final_check_skip_artifact(t) ==
  /\ tasks[t].pc = "final_sleep"
  /\ tasks' = [tasks EXCEPT ![t].pc =
                 IF status # "Running" THEN "done" ELSE "store_complete"]
  /\ UNCHANGED <<status, progress_percentage, json_data, run_calls,
                 n_run, n_reset, n_json>>
  /\ UNCHANGED storeVars

task_final_check(t) ==
  /\ tasks[t].pc = "final_sleep"
  /\ tasks' = [tasks EXCEPT ![t].pc =
                 IF status # "Running" THEN "done" ELSE "all"]
  /\ UNCHANGED <<status, progress_percentage, json_data, run_calls,
                 n_run, n_reset, n_json>>
  /\ UNCHANGED storeVars

\* spawned task, line 80: contacts.all().await
task_all(t) ==
  /\ tasks[t].pc = "all"
  /\ tasks' = [tasks EXCEPT ![t].contacts = all(contact),
                            ![t].at_read = contact,
                            ![t].pc = "store_json"]
  /\ UNCHANGED <<status, progress_percentage, json_data, run_calls,
                 n_run, n_reset, n_json>>
  /\ UNCHANGED storeVars

\* spawned task, line 80 when contacts.all() returns Err (or line 81 when
\* to_string does): unwrap panics and the task ends there
task_all_fail(t) ==
  /\ tasks[t].pc = "all"
  /\ tasks' = [tasks EXCEPT ![t].failed_at = Some(n_reset),
                            ![t].pc = "done"]
  /\ UNCHANGED <<status, progress_percentage, json_data, run_calls,
                 n_run, n_reset, n_json>>
  /\ UNCHANGED storeVars

\* spawned task, lines 79-82: json_data.store(Some(Arc::new(to_string(..))))
task_store_json(t) ==
  /\ tasks[t].pc = "store_json"
  /\ json_data' = Some(to_string(tasks[t].contacts))
  /\ n_json' = n_json + 1
  /\ tasks' = [tasks EXCEPT ![t].pc = "store_complete", ![t].wrote = TRUE,
                            ![t].contacts = <<>>]
  /\ UNCHANGED <<status, progress_percentage, run_calls, n_run, n_reset>>
  /\ UNCHANGED storeVars

\* spawned task, lines 83-85: status.store(Complete), the task returns
task_store_complete(t) ==
  /\ tasks[t].pc = "store_complete"
  /\ status' = "Complete"
  /\ tasks' = [tasks EXCEPT ![t].pc = "done"]
  /\ UNCHANGED <<progress_percentage, json_data, run_calls,
                 n_run, n_reset, n_json>>
  /\ UNCHANGED storeVars

\* ====================================================================== Init
\* ContactRepo::build_with_fake_data(pool, n) for n in 0..MaxSeed (n = 0
\* leaves what ContactRepo::build leaves), then Archiver::new
InitStore(requests) ==
  /\ \E n \in 0..MaxSeed : \E fakes \in [1..n -> FakeContacts] :
       /\ contact = build_with_fake_data(fakes)
       /\ next_id = n
  /\ pc = [c \in requests |-> "idle"]
  /\ req = [c \in requests |-> NoContact]
  /\ result = [c \in requests |-> NoResult]
  /\ issued = <<>>
  /\ deleted_ids = {}
  /\ rendered = None

InitArchiver ==
  /\ status = "Waiting"
  /\ progress_percentage = 0
  /\ json_data = None
  /\ run_calls = [spawn |-> 0, restore |-> 0]
  /\ tasks = <<>>
  /\ n_run = 0
  /\ n_reset = 0
  /\ n_json = 0

Init == InitStore(Callers) /\ InitArchiver

InitRace == InitStore(Racers) /\ InitArchiver

\* ============================================================ specifications
NextCreate ==
  \/ \E c \in DOMAIN pc : \E form \in NewForms :
       contacts_new_post_pop_id(c, form)
  \/ \E c \in DOMAIN pc : contacts_new_post_save(c)

\* An edit of an id no row has changes nothing (the UPDATE matches no row
\* and the handler keeps no state), so edits are drawn for the stored ids.
NextStore ==
  \/ NextCreate
  \/ \E r \in contact : \E form \in EditForms : contacts_edit_post(r.id, form)
  \/ \E id \in Ids : contacts_delete_post(id)

Next == NextStore

Spec == Init /\ [][Next]_vars

NextArchiver ==
  \/ run_swap
  \/ run_restore
  \/ run_spawn
  \/ reset
  \/ \E t \in DOMAIN tasks : task_check(t)
  \/ \E t \in DOMAIN tasks : task_store_progress(t)
  \/ \E t \in DOMAIN tasks : task_final_check(t)
  \/ \E t \in DOMAIN tasks : task_all(t)
  \/ \E t \in DOMAIN tasks : task_store_json(t)
  \/ \E t \in DOMAIN tasks : task_store_complete(t)

SpecArchiver == Init /\ [][NextArchiver]_vars

SpecRace == InitRace /\ [][NextCreate]_vars

\* one step of task t
task_step(t) ==
  \/ task_check(t)
  \/ task_store_progress(t)
  \/ task_final_check(t)
  \/ task_all(t)
  \/ task_store_json(t)
  \/ task_store_complete(t)

\* run() calls and their tasks when no reset() arrives and the reads of the
\* store succeed.  The runtime resumes a run() call and a task whose sleep
\* has ended: weak fairness of the steps of each.
NextRun ==
  \/ run_swap
  \/ run_restore
  \/ run_spawn
  \/ \E t \in DOMAIN tasks : task_step(t)

FairRun ==
  /\ WF_vars(run_restore)
  /\ WF_vars(run_spawn)
  /\ \A t \in 1..MaxRuns : WF_vars(t \in DOMAIN tasks /\ task_step(t))

SpecRun == Init /\ [][NextRun]_vars /\ FairRun

\* run(), reset() and task steps when the read of the store may fail
NextFailure ==
  \/ NextArchiver
  \/ \E t \in DOMAIN tasks : task_all_fail(t)

SpecFailure == Init /\ [][NextFailure]_vars

\* one create request, edits and deletes while run() calls and their tasks
\* proceed and no reset() arrives
InitSnapshot == InitStore({1}) /\ InitArchiver

NextSnapshot ==
  \/ NextStore
  \/ run_swap
  \/ run_restore
  \/ run_spawn
  \/ \E t \in DOMAIN tasks : task_check(t)
  \/ \E t \in DOMAIN tasks : task_store_progress(t)
  \/ \E t \in DOMAIN tasks : task_final_check(t)
  \/ \E t \in DOMAIN tasks : task_all(t)
  \/ \E t \in DOMAIN tasks : task_store_json(t)
  \/ \E t \in DOMAIN tasks : task_store_complete(t)

SpecSnapshot == InitSnapshot /\ [][NextSnapshot]_vars

\* GET /contacts requests over a table seeded with up to MaxRows rows, the
\* first names alternating between the two that new_fake drew
InitPages ==
  /\ \E n \in 0..MaxRows : \E odd, even \in FirstNames :
       /\ contact = build_with_fake_data(
            [i \in 1..n |->
               [first |-> IF i % 2 = 1 THEN odd ELSE even, last |-> Li,
                phone |-> "555", email |-> FakeEmail(i)]])
       /\ next_id = n
  /\ pc = <<>>
  /\ req = <<>>
  /\ result = <<>>
  /\ issued = <<>>
  /\ deleted_ids = {}
  /\ rendered = None
  /\ InitArchiver

NextPages ==
  \E query_q \in OptQueries : \E query_page \in OptPages :
    \E overflow_checks \in BOOLEAN :
      contacts_get(query_q, query_page, overflow_checks)

SpecPages == InitPages /\ [][NextPages]_vars

\* ==================================================================== claims
UniqueError == [NoErrors EXCEPT !.email = Some(ERR_EMAIL_UNIQUE)]
OptIds == {None} \cup {Some(i) : i \in Ids}
Owners(email) == {r \in contact : r.email = email}

\* C1: in every reachable state (after seeding and after any interleaving of
\* create, update and delete) no two stored records have the same email.
C1_EmailUnique ==
  \A r1, r2 \in contact : r1.email = r2.email => r1 = r2

\* a create was refused for its email, a row was deleted, a row was edited
\* and two rows are stored
C1_Witness ==
  /\ Cardinality(contact) = 2
  /\ deleted_ids # {}
  /\ \E r \in contact : r.first = Bo
  /\ \E c \in DOMAIN pc : pc[c] = "done" /\ result[c].errors = UniqueError

\* C2: N concurrent creates of one valid email that no record owned, each
\* with its own id from pop_id: of those that have returned exactly one
\* returned Ok, every other one returned the structured uniqueness error, and
\* the table holds exactly one record with that email.
Returned(email) ==
  {c \in DOMAIN pc : pc[c] = "done" /\ req[c].email = email}

UnownedBefore(email) ==
  \A r \in Owners(email) : \E c \in Returned(email) : req[c].id = r.id

C2_OneWinner ==
  \A email \in ValidEmails :
    (Returned(email) # {} /\ UnownedBefore(email)) =>
      /\ Cardinality({c \in Returned(email) : result[c].res = "Ok"}) = 1
      /\ \A c \in Returned(email) :
           result[c].res # "Ok" =>
             result[c].res = "Invalid" /\ result[c].errors = UniqueError
      /\ Cardinality(Owners(email)) = 1

C2_Witness ==
  \E email \in ValidEmails :
    /\ UnownedBefore(email)
    /\ Cardinality(Returned(email)) >= 3
    /\ Cardinality({c \in Returned(email) : result[c].errors = UniqueError}) >= 2

\* C3: at most one background task of the runner is alive (spawned and not
\* yet returned) at any time.
C3_OneTaskAlive ==
  Cardinality({t \in DOMAIN tasks : Alive(t)}) <= 1

\* C4: a task that was in flight when reset() met status Running, with no
\* start() after that reset, never writes an artifact.
C4_AbortedTaskWritesNothing ==
  \A t \in DOMAIN tasks : tasks[t].cancelled => ~tasks[t].wrote

\* C5: once reset() has set status to Waiting, status stays Waiting until a
\* start(): no step of a background task changes it.
C5_WaitingUntilStart ==
  [][status = "Waiting" =>
       (status' = "Waiting" \/ n_run' # n_run \/ run_calls' # run_calls)]_vars

\* C6: start() calls from Waiting with no reset() spawn exactly one task,
\* every call after the first changes nothing, and once the calls and the
\* task have returned status is Complete and the artifact was written once.
C6_NoResetState ==
  (n_reset = 0 /\ n_run >= 1) =>
    /\ status # "Waiting"
    /\ Len(tasks) + run_calls.spawn = 1
    /\ n_json <= 1
    /\ (run_calls = [spawn |-> 0, restore |-> 0]
          /\ \A t \in DOMAIN tasks : ~Alive(t))
         => (status = "Complete" /\ n_json = 1 /\ json_data # None)

C6_LaterStartStep ==
  (n_reset = 0 /\ n_run >= 1 /\ n_run' = n_run + 1) =>
    /\ tasks' = tasks
    /\ progress_percentage' = progress_percentage
    /\ json_data' = json_data
    /\ run_calls'.spawn = run_calls.spawn
    /\ status = "Running" => (status' = "Running" /\ run_calls' = run_calls)

C6_OneRunPerStart == []C6_NoResetState /\ [][C6_LaterStartStep]_vars

C6_Witness ==
  /\ n_reset = 0
  /\ n_run >= 2
  /\ Len(tasks) = 1
  /\ ~Alive(1)
  /\ run_calls = [spawn |-> 0, restore |-> 0]
  /\ status = "Complete"

\* C7: the ids returned by pop_id are pairwise distinct and increase in the
\* order of the calls, and no call returns the id of a record that was
\* deleted before it.
C7_Increasing ==
  \A i, j \in 1..Len(issued) : i < j => issued[i] < issued[j]

C7_NotReissued ==
  Len(issued') > Len(issued) => issued'[Len(issued')] \notin deleted_ids

C7_IdsNeverRepeat == []C7_Increasing /\ [][C7_NotReissued]_vars

\* two ids were issued and the record that carried the first was deleted
C7_Witness ==
  /\ Len(issued) >= 2
  /\ issued[1] \in deleted_ids

\* C8: between two starts that moved status from Waiting to Running the
\* successive values of progress never decrease.
C8_ProgressMonotone ==
  [][progress_percentage' >= progress_percentage
       \/ run_calls'.spawn < run_calls.spawn]_vars

\* C9: create with a syntactically valid email that a stored record owns
\* returns the validation error {email: "Email Must Be Unique"}, the message
\* validate_email(None, email) gives, and leaves the table unchanged.
C9_SaveStep(c) ==
  (/\ pc[c] = "save"
   /\ pc'[c] = "done"
   /\ validator_validate_email(req[c].email)
   /\ Owners(req[c].email) # {}) =>
    /\ result'[c].res = "Invalid"
    /\ result'[c].errors = UniqueError
    /\ result'[c].errors.email = validate_email(contact, None, req[c].email)
    /\ contact' = contact

C9_DuplicateCreateRejected == [][\A c \in DOMAIN pc : C9_SaveStep(c)]_vars

\* a create was refused although its id was free: another row owns its email
C9_Witness ==
  \E c \in DOMAIN pc :
    /\ pc[c] = "done"
    /\ result[c].errors = UniqueError
    /\ \E r \in Owners(req[c].email) : r.id # req[c].id
    /\ ~\E r \in contact : r.id = req[c].id

\* C10: validate_email(contact_id, email) returns no error iff email is
\* non-empty and valid and either no stored record owns it or the owner's id
\* is contact_id; for a stored record r it returns no error for
\* (r.id, r.email) and the uniqueness error for any other id or no id.
C10_ValidateEmail ==
  /\ \A id \in OptIds : \A email \in Emails :
       (validate_email(contact, id, email) = None) <=>
         /\ email # ""
         /\ validator_validate_email(email)
         /\ \/ Owners(email) = {}
            \/ \E r \in Owners(email) : id = Some(r.id)
  /\ \A r \in contact :
       /\ validate_email(contact, Some(r.id), r.email) = None
       /\ \A id \in OptIds \ {Some(r.id)} :
            validate_email(contact, id, r.email) = Some(ERR_EMAIL_UNIQUE)

\* two records are stored, one of them created by a request, so each email
\* has an owner and a non-owner
C10_Witness ==
  \E r1, r2 \in contact :
    /\ r1.id # r2.id
    /\ \E c \in DOMAIN pc : pc[c] = "done" /\ req[c] = r1
    /\ validate_email(contact, Some(r1.id), r1.email) = None
    /\ validate_email(contact, Some(r2.id), r1.email) = Some(ERR_EMAIL_UNIQUE)

\* C11: update(record) of a stored record whose valid email is owned by a
\* different stored record returns the structured uniqueness validation error
\* (the verdict of validate_email(record.id, email) in the email field), not
\* an infrastructure failure, and leaves the store unchanged.
C11_UpdateConflictRejected ==
  \A id \in Ids : \A form \in EditForms :
    ( /\ validator_validate_email(form.email)
      /\ \E r \in contact : r.id = id
      /\ \E r \in contact : r.id # id /\ r.email = form.email )
    => LET u == update(contact, build_contact(form, id))
       IN /\ u.res = "Invalid"
          /\ u.errors = [NoErrors EXCEPT
                           !.email = validate_email(contact, Some(id), form.email)]
          /\ u.table = contact

\* C12: update(record) for a stored record whose email is the valid email
\* that record already stores succeeds with no uniqueness error and
\* overwrites first, last, phone and email of exactly the record with that
\* id; every other record and the count are unchanged.
C12_UpdateOwnEmail ==
  \A r \in contact : \A form \in EditForms :
    form.email = r.email =>
      LET c == build_contact(form, r.id)
          u == update(contact, c)
      IN /\ u.res = "Ok"
         /\ u.errors = NoErrors
         /\ \A x \in u.table : x.id = r.id <=> x = c
         /\ \E x \in u.table : x.id = r.id
         /\ {x \in u.table : x.id # r.id} = {x \in contact : x.id # r.id}
         /\ Cardinality(u.table) = Cardinality(contact)

\* a seeded record has been overwritten by an update (only an edit form
\* carries the first name "Bo") while a second record is stored, and an
\* update that keeps its email changes its first name back
C12_Witness ==
  \E r1, r2 \in contact :
    /\ r1.id # r2.id
    /\ r1.first = Bo
    /\ ~\E c \in DOMAIN pc : req[c].id = r1.id
    /\ update(contact, [r1 EXCEPT !.first = Al]).table
         = (contact \ {r1}) \cup {[r1 EXCEPT !.first = Al]}

\* C13: start() when status is Complete and no task is alive spawns no task
\* and leaves progress and the artifact unchanged; status is Complete when
\* the call returns; until a reset() no new run begins.
C13_NoneAlive == \A t \in DOMAIN tasks : ~Alive(t)

\* Complete, or Running only for a run() call that has yet to store Complete
\* back
C13_Settled ==
  /\ C13_NoneAlive
  /\ run_calls.spawn = 0
  /\ \/ status = "Complete"
     \/ status = "Running" /\ run_calls.restore > 0

C13_SwapStep ==
  (status = "Complete" /\ C13_NoneAlive /\ n_run' = n_run + 1)
  => /\ run_calls'.spawn = run_calls.spawn
     /\ run_calls'.restore = run_calls.restore + 1

C13_ReturnStep ==
  run_calls'.restore < run_calls.restore => status' = "Complete"

C13_UntilReset ==
  (C13_Settled /\ n_reset' = n_reset)
  => /\ C13_Settled'
     /\ Len(tasks') = Len(tasks)
     /\ progress_percentage' = progress_percentage
     /\ json_data' = json_data

C13_StartOnComplete ==
  [][C13_SwapStep /\ C13_ReturnStep /\ C13_UntilReset]_vars

\* a run has completed and a second run() call has swapped status from
\* Complete and has yet to return
C13_Witness ==
  /\ Len(tasks) = 1 /\ tasks[1].pc = "done" /\ tasks[1].wrote
  /\ run_calls.restore = 1
  /\ status = "Running"
  /\ n_reset = 0

\* C14: every change of status follows an edge of the state machine:
\* Waiting -> Running by start(), Running -> Complete by the task,
\* Running -> Waiting and Complete -> Waiting by reset(); status never changes
\* Complete -> Running or Waiting -> Complete.
C14_Edge ==
  \/ status = "Waiting" /\ status' = "Running" /\ n_run' = n_run + 1
  \/ /\ status = "Running" /\ status' = "Complete"
     /\ \E t \in DOMAIN tasks :
          tasks[t].pc = "store_complete" /\ tasks'[t].pc = "done"
  \/ status = "Running" /\ status' = "Waiting" /\ n_reset' = n_reset + 1
  \/ status = "Complete" /\ status' = "Waiting" /\ n_reset' = n_reset + 1

C14_StatusEdges == [][status' # status => C14_Edge]_vars

\* C15: in every reachable state where the artifact is present, some run has
\* already set status to Complete; the artifact is never observable while the
\* first run is still Running.
C15_ArtifactAfterComplete ==
  json_data # None =>
    \E t \in DOMAIN tasks : tasks[t].wrote /\ tasks[t].pc = "done"

\* C15, amended: where the artifact is present, some task has been through
\* all its stages and has stored the artifact, and that task has stored
\* Complete or stores it as its next step.
C15_ArtifactAfterStages ==
  json_data # None =>
    \E t \in DOMAIN tasks :
      /\ tasks[t].wrote
      /\ tasks[t].i = STAGES
      /\ tasks[t].pc \in {"store_complete", "done"}

\* the first run has stored its artifact and status is still Running
C15_Witness ==
  /\ json_data # None
  /\ status = "Running"
  /\ Len(tasks) = 1 /\ tasks[1].pc = "store_complete"
  /\ n_run = 1

\* C16: the artifact written by a completed run is the serialization of
\* exactly the set of records stored at the moment that run's progress
\* reached 100, whatever creates, updates and deletes interleave with the
\* run's final steps.
C16_SnapshotAt100 ==
  \A t \in DOMAIN tasks :
    tasks[t].pc = "store_complete" =>
      json_data = Some(to_string(all(tasks[t].at_100)))

\* C16, amended: the artifact written by a run is the serialization, in id
\* order, of exactly the set of records stored at the moment the task's
\* contacts.all() read the table, which is after the final status check;
\* changes between progress 100 and that read are in it, later ones are not.
C16_Snapshot(t) ==
  LET items == json_data[1].items
  IN /\ json_data # None
     /\ json_data[1].json = "array"
     /\ {items[k] : k \in DOMAIN items} = tasks[t].at_read
     /\ Len(items) = Cardinality(tasks[t].at_read)
     /\ \A j, k \in DOMAIN items : j < k => items[j].id < items[k].id

C16_SnapshotAtRead ==
  \A t \in DOMAIN tasks : tasks[t].pc = "store_complete" => C16_Snapshot(t)

\* the table changed after progress reached 100 and before the read, and
\* again after the read, and the artifact of two records is stored
C16_Witness ==
  \E t \in DOMAIN tasks :
    /\ tasks[t].pc = "store_complete"
    /\ tasks[t].at_100 # tasks[t].at_read
    /\ tasks[t].at_read # contact
    /\ Cardinality(tasks[t].at_read) = 2

\* C17: list(page) and search(q, page) with a page below 1 (page 0) return
\* exactly what page 1 returns.
C17_Answer(q, page) ==
  IF q # None /\ q[1] # <<>> THEN search(contact, q[1], page, TRUE)
  ELSE all_by_page(contact, page, TRUE)

C17_PageZeroIsPageOne ==
  /\ (rendered # None /\ rendered[1].page < 1) =>
       /\ rendered[1].res = C17_Answer(rendered[1].q, 1).res
       /\ rendered[1].contacts = C17_Answer(rendered[1].q, 1).contacts
  /\ \A q \in Queries : \A overflow_checks \in BOOLEAN :
       /\ all_by_page(contact, 0, overflow_checks)
            = all_by_page(contact, 1, overflow_checks)
       /\ search(contact, q, 0, overflow_checks)
            = search(contact, q, 1, overflow_checks)

\* page 0 of a table of more than one page was asked for and a full page came
C17_Witness ==
  /\ rendered # None
  /\ rendered[1].page = 0
  /\ Len(rendered[1].contacts) = PAGE_SIZE
  /\ Cardinality(contact) > PAGE_SIZE

\* C18: for every u32 page past the available data (page > ceil(n/10)) list
\* and search return an empty sequence, never an error and never a stored
\* record, the offset (page - 1) * 10 being computed in 32-bit unsigned
\* arithmetic.
C18_PastTheEndIsEmpty ==
  (rendered # None
     /\ rendered[1].page > (Cardinality(contact) + PAGE_SIZE - 1) \div PAGE_SIZE)
  => /\ rendered[1].res = "Ok"
     /\ rendered[1].contacts = <<>>

\* C19: for every q (the characters % and _ included) and page, search
\* returns only stored records whose first or last contains q as a
\* case-insensitive substring: only records for which match_text(q) holds.
C19_SearchOnlyMatches ==
  (rendered # None /\ rendered[1].q # None /\ rendered[1].q[1] # <<>>)
  => \A k \in DOMAIN rendered[1].contacts :
       /\ rendered[1].contacts[k] \in contact
       /\ match_text(rendered[1].contacts[k], rendered[1].q[1])

\* C20: delete(id) for an id no record has returns success and leaves the
\* store unchanged; delete is idempotent and removes only the record with
\* that id.
C20_DeleteOnlyThatRecord ==
  \A id \in Ids :
    LET once == execute_delete(contact, id)
    IN /\ (~\E r \in contact : r.id = id) => once = contact
       /\ execute_delete(once, id) = once
       /\ once \subseteq contact
       /\ \A r \in contact : r \notin once <=> r.id = id
       /\ Cardinality(contact) - Cardinality(once) \in {0, 1}

\* a record has been deleted, its id is no longer stored (deleting it again
\* meets an absent id) and two other records are stored
C20_Witness ==
  /\ \E id \in deleted_ids : ~\E r \in contact : r.id = id
  /\ Cardinality(contact) = 2

\* C21: immediately after the store is initialised with seeding of n records
\* the id counter equals count(), whatever seed emails were generated; an
\* unseeded store has counter 0 and count 0.
C21_CounterIsCount ==
  (issued = <<>> /\ deleted_ids = {}) => next_id = count(contact)

\* C22: in every reachable state, under any interleaving of start(), reset()
\* and task steps, the stored progress is a multiple of 10 in 0..100, so
\* progress() is in [0, 1].
C22_ProgressInRange ==
  /\ progress_percentage \in 0..100
  /\ progress_percentage % 10 = 0

\* a run was reset and started again, so two tasks store progress, and the
\* stored progress has reached 100
C22_Witness ==
  /\ Len(tasks) = 2
  /\ n_reset > 0
  /\ progress_percentage = 100

\* C23: after a start() that moves status from Waiting to Running, if no
\* reset() occurs and the read of the store succeeds, under fair scheduling
\* the task eventually ends having been through all 10 stages, with progress
\* 100, the artifact set to the serialized record set and status Complete.
C23_Completed ==
  /\ Len(tasks) = 1
  /\ tasks[1].pc = "done"
  /\ tasks[1].i = STAGES
  /\ tasks[1].wrote
  /\ progress_percentage = 100
  /\ json_data = Some(to_string(all(contact)))
  /\ status = "Complete"

C23_RunCompletes == (run_calls.spawn > 0) ~> C23_Completed

\* the run of a table of two records has completed
C23_Witness ==
  /\ C23_Completed
  /\ Len(json_data[1].items) = 2

\* C24: start() and reset() are linearizable on status: a start() on Complete
\* that runs concurrently with a reset() leaves Waiting or Running, never
\* Complete; a reset() is never overwritten by a start() that began before it.
C24_ResetNotOverwritten ==
  [][(run_calls'.restore < run_calls.restore /\ status = "Waiting")
       => status' = "Waiting"]_vars

\* C25: if the read of the store fails in a run's final step, the task ends
\* without writing an artifact and without changing status; status remains
\* Running in every later state until reset() is called, and start() calls
\* in that state spawn no task.
C25_FailedSinceReset ==
  \E t \in DOMAIN tasks : tasks[t].failed_at = Some(n_reset)

C25_FailStep ==
  (\E t \in DOMAIN tasks : tasks[t].failed_at = None /\ tasks'[t].failed_at # None)
  => /\ json_data' = json_data
     /\ status' = status

C25_StuckStep ==
  (C25_FailedSinceReset /\ status = "Running" /\ n_reset' = n_reset)
  => /\ status' = "Running"
     /\ run_calls'.spawn <= run_calls.spawn

C25_StuckRunning == [][C25_FailStep /\ C25_StuckStep]_vars

\* C26: reset() changes only status: progress and the artifact are left as
\* they are, so after reset() from Complete status Waiting is observed
\* together with the previous run's artifact until a later run stores one.
C26_ResetStep ==
  (n_reset' # n_reset)
  => /\ status' = "Waiting"
     /\ progress_percentage' = progress_percentage
     /\ json_data' = json_data
     /\ run_calls' = run_calls
     /\ Len(tasks') = Len(tasks)

C26_ArtifactStep ==
  (json_data' # json_data)
  => /\ json_data' # None
     /\ \E t \in DOMAIN tasks :
          tasks[t].pc = "store_json" /\ tasks'[t].pc = "store_complete"

C26_ResetChangesOnlyStatus == [][C26_ResetStep /\ C26_ArtifactStep]_vars

\* a run has completed and a reset() followed: Waiting with its artifact
C26_Witness ==
  /\ status = "Waiting"
  /\ json_data # None
  /\ progress_percentage = 100
  /\ n_reset = 1
  /\ Len(tasks) = 1 /\ tasks[1].pc = "done" /\ tasks[1].wrote

\* C27: for a store of n records that is not modified between the calls,
\* every list(p) returns at most 10 records, pages 1..ceil(n/10) together
\* hold every stored record exactly once, and list(p) is empty for every
\* p > ceil(n/10).
C27_LastPage == (count(contact) + PAGE_SIZE - 1) \div PAGE_SIZE

RECURSIVE C27_Pages(_, _)
C27_Pages(p, overflow_checks) ==
  IF p = 0 THEN <<>>
  ELSE C27_Pages(p - 1, overflow_checks)
         \o all_by_page(contact, p, overflow_checks).contacts

C27_Partition ==
  \A overflow_checks \in BOOLEAN :
    /\ \A p \in Pages \cup 1..(C27_LastPage + 1) :
         LET page == all_by_page(contact, p, overflow_checks)
         IN /\ Len(page.contacts) <= PAGE_SIZE
            /\ p > C27_LastPage => page.res = "Ok" /\ page.contacts = <<>>
    /\ LET listed == C27_Pages(C27_LastPage, overflow_checks)
       IN /\ Len(listed) = count(contact)
          /\ {listed[k] : k \in DOMAIN listed} = contact

\* C28: in every reachable state status Complete implies that the artifact
\* is present.
C28_CompleteHasArtifact == status = "Complete" => json_data # None

\* a run has completed and a second run() call has returned: Complete,
\* with the artifact
C28_Witness ==
  /\ status = "Complete"
  /\ json_data # None
  /\ n_run = 2
  /\ n_reset = 0
  /\ run_calls = [spawn |-> 0, restore |-> 0]
  /\ Len(tasks) = 1

\* C29: with every create using an id from pop_id, each stored record's id is
\* below the counter and stored ids are pairwise distinct, so a create never
\* collides on id and its uniqueness error means that another stored record
\* owns the email; a rejected create has consumed its id, which is not
\* issued again.
C29_IdsBelowCounter ==
  /\ \A r \in contact : r.id < next_id
  /\ \A r1, r2 \in contact : r1.id = r2.id => r1 = r2
  /\ \A c \in DOMAIN pc :
       pc[c] = "save" =>
         /\ ~\E r \in contact : r.id = req[c].id
         /\ ~execute_save(contact, req[c]).ok
              => \E r \in contact :
                   r.email = req[c].email /\ r.id # req[c].id
  /\ \A c \in DOMAIN pc :
       pc[c] \in {"save", "done"} =>
         /\ req[c].id < next_id
         /\ Cardinality({k \in DOMAIN issued : issued[k] = req[c].id}) = 1
  /\ \A c \in DOMAIN pc :
       (pc[c] = "done" /\ result[c].res # "Ok")
         => ~\E r \in contact : r.id = req[c].id

\* a create was rejected for its email and a later create was stored under
\* the next id
C29_Witness ==
  \E c1, c2 \in DOMAIN pc :
    /\ pc[c1] = "done" /\ result[c1].errors = UniqueError
    /\ pc[c2] = "done" /\ result[c2].res = "Ok"
    /\ req[c2].id = req[c1].id + 1
    /\ req[c2] \in contact

====
